---- MODULE Spec2Model ----
(***************************************************************************)
(* The chat store of Scrape_and_AI: the chat_sessions and chat_messages    *)
(* tables of data/chat_database_manager.py (ChatDatabase) and the writers  *)
(* of scripts/chat_parser.py (ChatParser) and                              *)
(* scripts/cleanup_chat_database.py.                                       *)
(*                                                                         *)
(* One action is one call of a public operation, run to completion (the    *)
(* executions of Spec are sequential; every write of this specification    *)
(* succeeds at the storage level unless a UNIQUE constraint refuses it).   *)
(* The other specifications add one kind of event each to the ingests:     *)
(*   SpecIncremental   process_incremental                                 *)
(*   SpecResolve       chat_session_exists asked between ingests           *)
(*   SpecRace          an ingest in two steps, lookup and write            *)
(*   SpecStopped       a process that stops inside an ingest               *)
(*   SpecMergeStopped  a process that stops inside merge_chat_sessions     *)
(*   SpecMalformed     batches in which a message lacks a key              *)
(*   SpecNotFound      update_existing_session under an unknown key        *)
(*   SpecMergeFails    a cleanup in which merge_chat_sessions raises       *)
(*   SpecMaintenance   cleanup_chat_database, dry run and apply            *)
(*   SpecPasses        cleanup passes in steps: grouping, reads, writes    *)
(*   SpecIngests       update_existing_session in steps: read, writes      *)
(*   SpecPlatforms     the cleanup on sessions of two platforms            *)
(*   SpecAsWritten     process_incremental from its first statement        *)
(*   SpecLoops         the cleanup and the ingest, a loop iteration a step *)
(* ChatParser.chat_session_exists and ChatParser.update_existing_session   *)
(* are modelled from the statement after `conn = self.db.get_connection()` *)
(* on: their bodies run against a connection to the store.  SpecAsWritten  *)
(* has the call of get_connection itself.                                  *)
(*                                                                         *)
(* Strings built by f-strings are modelled as tuples of their parts:       *)
(*   session_id  f"{platform}_{%Y%m%d_%H%M%S}"      <<platform, second>>   *)
(*   message_id  f"{platform}_{hash(text)}_{ts}"    <<"hash", ...>>        *)
(*   message_id  f"{session_id}_{max_order}"        <<"order", sid, n>>    *)
(*   title       f"{Platform} Chat Session"         <<platform, "Chat Session">> *)
(*   title       f"{Platform} Chat with {p}"        <<platform, "Chat with", p>> *)
(* so two strings are equal exactly when their parts are.  hash(text) is   *)
(* Python's per-process salted string hash: it is a function of the text   *)
(* and of the process's hash seed.                                         *)
(***************************************************************************)
EXTENDS Integers, Sequences, FiniteSets, TLC

\* ---------------------------------------------------------------- bounds
MaxBatchLen == 2     \* messages in one scrape
MaxClock == 3        \* seconds the clock runs through
MaxWork == 7         \* size of one execution: its operations plus the messages they scrape
MaxStoppedLen == 1   \* messages in the scrape of a process that stops during its ingest
MaxPasses == 2       \* cleanup passes in flight at the same time
MaxIngests == 2      \* calls of update_existing_session in flight at the same time

\* ---------------------------------------------------------------- inputs
Platforms == {"upwork"}
DetectedPlatforms == {"upwork", "linkedin"}   \* for the runs that need two fingerprints
HashSeeds == {"seedA", "seedB"}

\* What a scrape yields for one message (_extract_message_data): four
\* observations chosen so that two share the dedup key (sender, text) with
\* different timestamps, and two share text and timestamp with different
\* senders.
ScrapedMessages ==
    { [sender |-> "alice", sender_type |-> "incoming", text |-> "hi", timestamp |-> "10:15"],
      [sender |-> "alice", sender_type |-> "incoming", text |-> "hi", timestamp |-> "10:20"],
      [sender |-> "bob",   sender_type |-> "outgoing", text |-> "hi", timestamp |-> "10:15"],
      [sender |-> "bob",   sender_type |-> "outgoing", text |-> "ok", timestamp |-> "10:20"] }

Batches == UNION { [1..k -> ScrapedMessages] : k \in 0..MaxBatchLen }
NonEmptyBatches == Batches \ { <<>> }
StoppedBatches == { batch \in Batches : Len(batch) <= MaxStoppedLen }

None == "None"

\* A message dict without one of the keys the ingest reads: msg[key] raises
\* KeyError exactly when the field is Missing.
Missing == "KeyError"

RequiredFields == { "sender", "sender_type", "text", "timestamp" }

Complete(msg) == \A field \in RequiredFields : msg[field] # Missing

MalformedMessages ==
    { [msg EXCEPT ![field] = Missing] :
        msg \in { m \in ScrapedMessages : m.text = "ok" }, field \in RequiredFields }

\* The batches in which at least one message lacks a required field.
MalformedBatches ==
    { batch \in UNION { [1..k -> ScrapedMessages \cup MalformedMessages] : k \in 1..MaxBatchLen } :
        \E i \in 1..Len(batch) : ~Complete(batch[i]) }

\* ---------------------------------------------------------------- state
VARIABLES
    chat_sessions,   \* rows of table chat_sessions
    chat_messages,   \* rows of table chat_messages
    now,             \* the wall clock, in seconds
    work,            \* operations run so far plus messages scraped so far
    last,            \* the last operation: its arguments and what it returned
    in_flight        \* the ingests that have resolved their session and not yet written

vars == <<chat_sessions, chat_messages, now, work, last, in_flight>>

\* ---------------------------------------------------------------- helpers
SetMax(S) == CHOOSE x \in S : \A y \in S : y <= x

DedupKey(m) == <<m.sender, m.message_text>>

BatchKey(msg) == <<msg.sender, msg.text>>

BatchKeys(batch) == { BatchKey(batch[i]) : i \in 1..Len(batch) }

SessionMessages(msgs, sid) == { r \in msgs : r.session_id = sid }

SessionKeys(msgs, sid) == { DedupKey(r) : r \in SessionMessages(msgs, sid) }

\* SELECT COUNT(*) FROM chat_messages WHERE session_id = ?
CountMessages(msgs, sid) == Cardinality(SessionMessages(msgs, sid))

\* SELECT COALESCE(MAX(message_order), 0) FROM chat_messages WHERE session_id = ?
MaxOrder(msgs, sid) ==
    IF SessionMessages(msgs, sid) = {} THEN 0
    ELSE SetMax({ r.message_order : r \in SessionMessages(msgs, sid) })

\* MessageExists with the lookup on message_id, which no stored row answers.
MessageExistsByMessageId(msgs, sid, sender, text) ==
    \E r \in msgs : r.session_id = sid /\ r.message_id = <<sender, text>>

\* MessageExists with the sender left out of the lookup.
MessageExistsByText(msgs, sid, sender, text) ==
    \E r \in msgs : r.session_id = sid /\ r.message_text = text

\* SELECT id FROM chat_messages WHERE session_id = ? AND sender = ? AND message_text = ?
MessageExists(msgs, sid, sender, text) ==
    \E r \in msgs : r.session_id = sid /\ r.sender = sender /\ r.message_text = text

\* message_id TEXT UNIQUE
MessageIdTaken(msgs, mid) == \E r \in msgs : r.message_id = mid

MessageRow(sid, mid, sender, sender_type, text, timestamp, order) ==
    [session_id |-> sid, message_id |-> mid, sender |-> sender,
     sender_type |-> sender_type, message_text |-> text,
     timestamp |-> timestamp, message_order |-> order]

\* RefreshSession without its WHERE session_id = ?.
RefreshEverySession(sessions, msgs, sid, t) ==
    { [s EXCEPT !.last_activity = t, !.total_messages = CountMessages(msgs, s.session_id)] :
      s \in sessions }

\* UPDATE chat_sessions SET last_activity = datetime('now'),
\*        total_messages = (SELECT COUNT(*) ...) WHERE session_id = ?
RefreshSession(sessions, msgs, sid, t) ==
    { IF s.session_id = sid
      THEN [s EXCEPT !.last_activity = t, !.total_messages = CountMessages(msgs, sid)]
      ELSE s : s \in sessions }

\* ------------------------------------------- ChatParser._extract_message_data
hash_message_id(platform, seed, msg) == <<"hash", platform, seed, msg.text, msg.timestamp>>

extract_message_data(platform, seed, msg) ==
    [text |-> msg.text, sender |-> msg.sender, timestamp |-> msg.timestamp,
     sender_type |-> msg.sender_type,
     message_id |-> hash_message_id(platform, seed, msg), order |-> 0]

ParsedBatch(platform, seed, batch) ==
    [i \in 1..Len(batch) |-> extract_message_data(platform, seed, batch[i])]

\* ------------------------------------------- ChatParser.update_existing_session
order_message_id(sid, order) == <<"order", sid, order>>

\* update_loop writing with INSERT OR REPLACE on (session, sender, text): a
\* message seen again is stored anew at the next position.
RECURSIVE update_loop_replace(_, _, _, _, _, _)
update_loop_replace(msgs, sid, batch, i, max_order, saved_count) ==
    IF i > Len(batch)
    THEN [msgs |-> msgs, saved_count |-> saved_count, errors |-> 0, raised |-> FALSE]
    ELSE LET msg == batch[i]
             order == max_order + 1
             row == MessageRow(sid, order_message_id(sid, order), msg.sender,
                               msg.sender_type, msg.text, msg.timestamp, order)
             seen == { r \in msgs : /\ r.session_id = sid
                                    /\ r.sender = msg.sender
                                    /\ r.message_text = msg.text }
         IN update_loop_replace((msgs \ seen) \cup {row}, sid, batch, i + 1, order,
                                IF seen = {} THEN saved_count + 1 ELSE saved_count)

\* update_loop leaving the loop at the first write that fails.
RECURSIVE update_loop_break(_, _, _, _, _, _)
update_loop_break(msgs, sid, batch, i, max_order, saved_count) ==
    IF i > Len(batch)
    THEN [msgs |-> msgs, saved_count |-> saved_count, errors |-> 0, raised |-> FALSE]
    ELSE LET msg == batch[i] IN
         IF msg.sender = Missing \/ msg.text = Missing
         THEN [msgs |-> msgs, saved_count |-> saved_count, errors |-> 0, raised |-> TRUE]
         ELSE IF MessageExists(msgs, sid, msg.sender, msg.text)
         THEN update_loop_break(msgs, sid, batch, i + 1, max_order, saved_count)
         ELSE LET order == max_order + 1
                  row == MessageRow(sid, order_message_id(sid, order), msg.sender,
                                    msg.sender_type, msg.text, msg.timestamp, order)
              IN IF \/ msg.sender_type = Missing
                    \/ msg.timestamp = Missing
                    \/ MessageIdTaken(msgs, row.message_id)
                 THEN [msgs |-> msgs, saved_count |-> saved_count, errors |-> 1,
                       raised |-> FALSE]
                 ELSE update_loop_break(msgs \cup {row}, sid, batch, i + 1, order,
                                        saved_count + 1)

\* for msg in new_messages.  msg['sender'] and msg['text'] are read for the
\* SELECT, outside the try: a KeyError there leaves the call.  The INSERT and
\* the reads of msg['sender_type'] and msg['timestamp'] are inside the try: an
\* exception there is printed and the loop goes on, max_order already raised.
RECURSIVE update_loop(_, _, _, _, _, _)
update_loop(msgs, sid, batch, i, max_order, saved_count) ==
    IF i > Len(batch)
    THEN [msgs |-> msgs, saved_count |-> saved_count, errors |-> 0, raised |-> FALSE]
    ELSE LET msg == batch[i] IN
         IF msg.sender = Missing \/ msg.text = Missing
         THEN [msgs |-> msgs, saved_count |-> saved_count, errors |-> 0, raised |-> TRUE]
         ELSE IF MessageExists(msgs, sid, msg.sender, msg.text)
         THEN update_loop(msgs, sid, batch, i + 1, max_order, saved_count)
         ELSE LET order == max_order + 1
                  row == MessageRow(sid, order_message_id(sid, order), msg.sender,
                                    msg.sender_type, msg.text, msg.timestamp, order)
              IN IF \/ msg.sender_type = Missing
                    \/ msg.timestamp = Missing
                    \/ MessageIdTaken(msgs, row.message_id)
                 THEN LET rest == update_loop(msgs, sid, batch, i + 1, order, saved_count)
                      IN [rest EXCEPT !.errors = @ + 1]
                 ELSE update_loop(msgs \cup {row}, sid, batch, i + 1, order, saved_count + 1)

\* When the loop raises, the call ends before conn.commit() and the
\* connection is dropped with its uncommitted rows.
update_existing_session(sessions, msgs, sid, batch, t) ==
    LET done == update_loop(msgs, sid, batch, 1, MaxOrder(msgs, sid), 0)
    IN IF done.raised
       THEN [sessions |-> sessions, msgs |-> msgs, saved_count |-> 0,
             errors |-> done.errors, raised |-> TRUE]
       ELSE [sessions |-> RefreshSession(sessions, done.msgs, sid, t),
             msgs |-> done.msgs,
             saved_count |-> done.saved_count,
             errors |-> done.errors, raised |-> FALSE]

\* update_existing_session from its loop to its commit, on the store as it
\* is then, counting from the max_order its first SELECT returned.  That
\* SELECT opens no transaction, so other connections commit between it and
\* the loop; from the first INSERT to the commit SQLite admits no other writer.
update_existing_session_writes(sessions, msgs, sid, batch, t, max_order) ==
    LET done == update_loop(msgs, sid, batch, 1, max_order, 0)
    IN IF done.raised
       THEN [sessions |-> sessions, msgs |-> msgs, saved_count |-> 0,
             errors |-> done.errors, raised |-> TRUE]
       ELSE [sessions |-> RefreshSession(sessions, done.msgs, sid, t),
             msgs |-> done.msgs,
             saved_count |-> done.saved_count,
             errors |-> done.errors, raised |-> FALSE]

\* ------------------------------------------- ChatDatabase.save_chat_session
\* INSERT OR REPLACE on the UNIQUE session_id: a row with the same session_id
\* is deleted and the new row takes its place.
save_chat_session(sessions, session_data, t) ==
    { s \in sessions : s.session_id # session_data.session_id }
    \cup { [session_id |-> session_data.session_id,
            chat_platform |-> session_data.platform,
            chat_title |-> session_data.title,
            participant_name |-> session_data.participant,
            last_activity |-> t,
            total_messages |-> session_data.total_messages,
            status |-> "active"] }

\* save_chat_messages with INSERT OR REPLACE: the row that has the
\* message_id is deleted and the new row takes its place.
RECURSIVE save_chat_messages_replacing(_, _, _, _, _)
save_chat_messages_replacing(msgs, sid, messages, i, saved_count) ==
    IF i > Len(messages) THEN [msgs |-> msgs, saved_count |-> saved_count, errors |-> 0]
    ELSE LET msg == messages[i]
             row == MessageRow(sid, msg.message_id, msg.sender, msg.sender_type,
                               msg.text, msg.timestamp, msg.order)
         IN IF ~Complete(msg)
            THEN LET rest == save_chat_messages_replacing(msgs, sid, messages, i + 1,
                                                          saved_count)
                 IN [rest EXCEPT !.errors = @ + 1]
            ELSE save_chat_messages_replacing(
                     { r \in msgs : r.message_id # msg.message_id } \cup {row},
                     sid, messages, i + 1, saved_count + 1)

\* ------------------------------------------- ChatDatabase.save_chat_messages
\* INSERT OR IGNORE: a row whose message_id is already in the table is dropped.
\* Every msg[key] is read inside the try: a KeyError is printed and the loop
\* goes on.
RECURSIVE save_chat_messages(_, _, _, _, _)
save_chat_messages(msgs, sid, messages, i, saved_count) ==
    IF i > Len(messages) THEN [msgs |-> msgs, saved_count |-> saved_count, errors |-> 0]
    ELSE LET msg == messages[i]
             row == MessageRow(sid, msg.message_id, msg.sender, msg.sender_type,
                               msg.text, msg.timestamp, msg.order)
         IN IF ~Complete(msg)
            THEN LET rest == save_chat_messages(msgs, sid, messages, i + 1, saved_count)
                 IN [rest EXCEPT !.errors = @ + 1]
            ELSE IF MessageIdTaken(msgs, msg.message_id)
            THEN save_chat_messages(msgs, sid, messages, i + 1, saved_count)
            ELSE save_chat_messages(msgs \cup {row}, sid, messages, i + 1, saved_count + 1)

\* ------------------------------------------- ChatParser.save_to_database
new_session_id(platform, t) == <<platform, t>>

session_title(platform) == <<platform, "Chat Session">>

save_to_database(sessions, msgs, messages, platform, t) ==
    LET session_id == new_session_id(platform, t)
        session_data == [session_id |-> session_id, platform |-> platform,
                         title |-> session_title(platform), participant |-> "Unknown",
                         total_messages |-> Len(messages)]
        ordered == [i \in 1..Len(messages) |-> [messages[i] EXCEPT !.order = i]]
        done == save_chat_messages(msgs, session_id, ordered, 1, 0)
    IN [sessions |-> save_chat_session(sessions, session_data, t),
        msgs |-> done.msgs,
        session_id |-> session_id,
        saved_count |-> done.saved_count,
        errors |-> done.errors]

\* ------------------------------------------- ChatDatabase.find_duplicate_chat_sessions
Fingerprint(s) == <<s.chat_platform, s.chat_title, s.participant_name>>

\* WHERE chat_platform IS NOT NULL AND participant_name IS NOT NULL
Groupable(sessions) ==
    { s \in sessions : s.chat_platform # None /\ s.participant_name # None }

GroupOf(sessions, fp) == { s \in Groupable(sessions) : Fingerprint(s) = fp }

\* GROUP BY ... HAVING COUNT(*) > 1
DuplicateFingerprints(sessions) ==
    { fp \in { Fingerprint(s) : s \in Groupable(sessions) } :
        Cardinality(GroupOf(sessions, fp)) > 1 }

\* ORDER BY total_messages DESC, last_activity DESC
SessionBefore(a, b) ==
    \/ a.total_messages > b.total_messages
    \/ a.total_messages = b.total_messages /\ a.last_activity > b.last_activity

\* Every sequence of the rows of S that the ORDER BY allows: rows that tie on
\* both sort keys come in either order.
RECURSIVE SessionOrders(_)
SessionOrders(S) ==
    IF S = {} THEN { <<>> }
    ELSE UNION { { <<x>> \o rest : rest \in SessionOrders(S \ {x}) } :
                 x \in { y \in S : \A z \in S : ~SessionBefore(z, y) } }

GroupRecords(sessions, fp) ==
    { [fingerprint |-> fp,
       duplicate_count |-> Len(rows),
       session_ids |-> [i \in 1..Len(rows) |-> rows[i].session_id],
       message_counts |-> [i \in 1..Len(rows) |-> rows[i].total_messages],
       keep_session |-> rows[1].session_id,
       remove_sessions |-> [i \in 1..(Len(rows) - 1) |-> rows[i + 1].session_id]] :
      rows \in SessionOrders(GroupOf(sessions, fp)) }

RECURSIVE GroupChoices(_, _)
GroupChoices(sessions, fps) ==
    IF fps = {} THEN { {} }
    ELSE LET fp == CHOOSE f \in fps : TRUE
         IN UNION { { {g} \cup rest : rest \in GroupChoices(sessions, fps \ {fp}) } :
                    g \in GroupRecords(sessions, fp) }

\* The results the query can return: one group record per duplicate fingerprint.
find_duplicate_chat_sessions(sessions) ==
    GroupChoices(sessions, DuplicateFingerprints(sessions))

\* ------------------------------------------- ChatDatabase.merge_chat_sessions
\* ORDER BY message_order ASC: rows with equal message_order come in either order.
RECURSIVE MessageOrders(_)
MessageOrders(S) ==
    IF S = {} THEN { <<>> }
    ELSE UNION { { <<x>> \o rest : rest \in MessageOrders(S \ {x}) } :
                 x \in { y \in S : \A z \in S : z.message_order >= y.message_order } }

\* merge_messages giving a merged message the order position it had in the
\* session it comes from.
RECURSIVE merge_messages_keeping_order(_, _, _, _, _)
merge_messages_keeping_order(msgs, keep, to_merge, i, st) ==
    IF i > Len(to_merge) THEN [msgs |-> msgs, st |-> st]
    ELSE LET msg == to_merge[i] IN
         IF MessageExists(msgs, keep, msg.sender, msg.message_text)
         THEN merge_messages_keeping_order(msgs, keep, to_merge, i + 1,
                  [st EXCEPT !.duplicate_messages_skipped = @ + 1])
         ELSE LET order == msg.message_order
                  row == MessageRow(keep, order_message_id(keep, order), msg.sender,
                                    msg.sender_type, msg.message_text, msg.timestamp, order)
              IN IF MessageIdTaken(msgs, row.message_id)
                 THEN merge_messages_keeping_order(msgs, keep, to_merge, i + 1, st)
                 ELSE merge_messages_keeping_order(msgs \cup {row}, keep, to_merge, i + 1,
                          [st EXCEPT !.messages_merged = @ + 1])

\* merge_messages without the count of the duplicates it skips.
RECURSIVE merge_messages_uncounted(_, _, _, _, _)
merge_messages_uncounted(msgs, keep, to_merge, i, st) ==
    IF i > Len(to_merge) THEN [msgs |-> msgs, st |-> st]
    ELSE LET msg == to_merge[i] IN
         IF MessageExists(msgs, keep, msg.sender, msg.message_text)
         THEN merge_messages_uncounted(msgs, keep, to_merge, i + 1, st)
         ELSE LET order == st.max_order + 1
                  row == MessageRow(keep, order_message_id(keep, order), msg.sender,
                                    msg.sender_type, msg.message_text, msg.timestamp, order)
              IN merge_messages_uncounted(msgs \cup {row}, keep, to_merge, i + 1,
                     [st EXCEPT !.max_order = order, !.messages_merged = @ + 1])

\* for msg in messages_to_merge
RECURSIVE merge_messages(_, _, _, _, _)
merge_messages(msgs, keep, to_merge, i, st) ==
    IF i > Len(to_merge) THEN [msgs |-> msgs, st |-> st]
    ELSE LET msg == to_merge[i] IN
         IF MessageExists(msgs, keep, msg.sender, msg.message_text)
         THEN merge_messages(msgs, keep, to_merge, i + 1,
                  [st EXCEPT !.duplicate_messages_skipped = @ + 1])
         ELSE LET order == st.max_order + 1
                  row == MessageRow(keep, order_message_id(keep, order), msg.sender,
                                    msg.sender_type, msg.message_text, msg.timestamp, order)
              IN IF MessageIdTaken(msgs, row.message_id)
                 THEN merge_messages(msgs, keep, to_merge, i + 1,
                          [st EXCEPT !.max_order = order])
                 ELSE merge_messages(msgs \cup {row}, keep, to_merge, i + 1,
                          [st EXCEPT !.max_order = order, !.messages_merged = @ + 1])

\* merge_remove_loop without the DELETE FROM chat_sessions.
RECURSIVE merge_remove_loop_keeps_row(_, _, _, _, _, _)
merge_remove_loop_keeps_row(sessions, msgs, keep, remove, j, st) ==
    IF j > Len(remove) THEN { [sessions |-> sessions, msgs |-> msgs, st |-> st] }
    ELSE UNION {
           LET merged == merge_messages(msgs, keep, to_merge, 1, st)
               rest_msgs == { r \in merged.msgs : r.session_id # remove[j] }
           IN merge_remove_loop_keeps_row(sessions, rest_msgs, keep, remove, j + 1,
                  [merged.st EXCEPT !.sessions_removed = @ + 1]) :
           to_merge \in MessageOrders(SessionMessages(msgs, remove[j])) }

\* for remove_session_id in remove_session_ids
RECURSIVE merge_remove_loop(_, _, _, _, _, _)
merge_remove_loop(sessions, msgs, keep, remove, j, st) ==
    IF j > Len(remove) THEN { [sessions |-> sessions, msgs |-> msgs, st |-> st] }
    ELSE UNION {
           LET merged == merge_messages(msgs, keep, to_merge, 1, st)
               rest_msgs == { r \in merged.msgs : r.session_id # remove[j] }
               rest_sessions == { s \in sessions : s.session_id # remove[j] }
           IN merge_remove_loop(rest_sessions, rest_msgs, keep, remove, j + 1,
                  [merged.st EXCEPT !.sessions_removed = @ + 1]) :
           to_merge \in MessageOrders(SessionMessages(msgs, remove[j])) }

merge_chat_sessions(sessions, msgs, keep, remove, t) ==
    { [sessions |-> RefreshSession(o.sessions, o.msgs, keep, t),
       msgs |-> o.msgs,
       stats |-> [messages_merged |-> o.st.messages_merged,
                  duplicate_messages_skipped |-> o.st.duplicate_messages_skipped,
                  sessions_removed |-> o.st.sessions_removed,
                  total_messages_before |-> CountMessages(msgs, keep),
                  total_messages_after |-> CountMessages(o.msgs, keep)]] :
      o \in merge_remove_loop(sessions, msgs, keep, remove, 1,
               [max_order |-> MaxOrder(msgs, keep), messages_merged |-> 0,
                duplicate_messages_skipped |-> 0, sessions_removed |-> 0]) }

\* The reads merge_chat_sessions makes before its first INSERT or DELETE:
\* max_order and COUNT(*) of the keep session, and messages_to_merge of the
\* first session to remove.  No transaction is open yet, so other connections
\* commit between these reads and the writes that follow.
merge_chat_sessions_reads(msgs, keep, remove) ==
    { [max_order |-> MaxOrder(msgs, keep),
       current_messages |-> CountMessages(msgs, keep),
       to_merge |-> to_merge] :
      to_merge \in MessageOrders(SessionMessages(msgs, remove[1])) }

\* merge_chat_sessions from its first write to its commit, on the store as
\* it is then, with the values of merge_chat_sessions_reads: the first
\* session's loop runs over reads.to_merge and counts from reads.max_order,
\* the DELETEs take every row of the session, the later sessions are read
\* inside the transaction.
merge_chat_sessions_writes(sessions, msgs, keep, remove, t, reads) ==
    LET merged == merge_messages(msgs, keep, reads.to_merge, 1,
                      [max_order |-> reads.max_order, messages_merged |-> 0,
                       duplicate_messages_skipped |-> 0, sessions_removed |-> 0])
        rest_msgs == { r \in merged.msgs : r.session_id # remove[1] }
        rest_sessions == { s \in sessions : s.session_id # remove[1] }
    IN { [sessions |-> RefreshSession(o.sessions, o.msgs, keep, t),
          msgs |-> o.msgs,
          stats |-> [messages_merged |-> o.st.messages_merged,
                     duplicate_messages_skipped |-> o.st.duplicate_messages_skipped,
                     sessions_removed |-> o.st.sessions_removed,
                     total_messages_before |-> reads.current_messages,
                     total_messages_after |-> CountMessages(o.msgs, keep)]] :
         o \in merge_remove_loop(rest_sessions, rest_msgs, keep, remove, 2,
                  [merged.st EXCEPT !.sessions_removed = @ + 1]) }

\* ------------------------------------------- ChatDatabase.cleanup_duplicate_chat_sessions
\* What the call returns when it finds no duplicate group.
NoStats ==
    [duplicate_groups_found |-> 0, sessions_removed |-> 0, messages_merged |-> 0,
     duplicate_messages_skipped |-> 0, success |-> TRUE]

\* total_stats before the loop.
NoTotals ==
    [duplicate_groups_found |-> 0, sessions_removed |-> 0, messages_merged |-> 0,
     duplicate_messages_skipped |-> 0, groups_processed |-> 0]

\* total_stats['success'] = True
WithSuccess(total_stats) ==
    [field \in DOMAIN total_stats \cup {"success"} |->
        IF field = "success" THEN TRUE ELSE total_stats[field]]

\* for group in duplicate_groups.  The groups own disjoint sessions, so the
\* order in which they are merged does not show in the result.  `failing`
\* holds the fingerprints of the groups whose merge_chat_sessions raises: the
\* exception is printed and the loop goes on, the merge's connection is
\* dropped before its commit.
RECURSIVE cleanup_groups(_, _, _, _, _, _, _)
cleanup_groups(groups, sessions, msgs, t, total_stats, merges, failing) ==
    IF groups = {}
    THEN { [sessions |-> sessions, msgs |-> msgs, stats |-> WithSuccess(total_stats),
            merges |-> merges] }
    ELSE LET group == CHOOSE g \in groups : TRUE IN
         IF group.fingerprint \in failing
         THEN cleanup_groups(groups \ {group}, sessions, msgs, t, total_stats, merges, failing)
         ELSE UNION {
           cleanup_groups(groups \ {group}, m.sessions, m.msgs, t,
               [total_stats EXCEPT
                  !.sessions_removed = @ + m.stats.sessions_removed,
                  !.messages_merged = @ + m.stats.messages_merged,
                  !.duplicate_messages_skipped = @ + m.stats.duplicate_messages_skipped,
                  !.groups_processed = @ + 1],
               merges \cup { [group |-> group, stats |-> m.stats] }, failing) :
           m \in merge_chat_sessions(sessions, msgs, group.keep_session,
                                     group.remove_sessions, t) }

\* cleanup_duplicate_chat_sessions stamping every session with the time of
\* the pass when it finds no duplicate group.
cleanup_stamping_sessions(sessions, msgs, t, failing) ==
    UNION {
      IF duplicate_groups = {}
      THEN { [sessions |-> { [s EXCEPT !.last_activity = t] : s \in sessions },
              msgs |-> msgs, stats |-> NoStats, merges |-> {}] }
      ELSE cleanup_groups(duplicate_groups, sessions, msgs, t,
               [NoTotals EXCEPT !.duplicate_groups_found = Cardinality(duplicate_groups)],
               {}, failing) :
      duplicate_groups \in find_duplicate_chat_sessions(sessions) }

cleanup_duplicate_chat_sessions(sessions, msgs, t, failing) ==
    UNION {
      IF duplicate_groups = {}
      THEN { [sessions |-> sessions, msgs |-> msgs, stats |-> NoStats, merges |-> {}] }
      ELSE cleanup_groups(duplicate_groups, sessions, msgs, t,
               [NoTotals EXCEPT !.duplicate_groups_found = Cardinality(duplicate_groups)],
               {}, failing) :
      duplicate_groups \in find_duplicate_chat_sessions(sessions) }

\* get_duplicate_chat_stats without HAVING count > 1: every fingerprint
\* counts as a group.
get_duplicate_chat_stats_no_having(sessions, msgs) ==
    LET fingerprints == { Fingerprint(s) : s \in Groupable(sessions) }
        duplicate_sessions_count ==
            Cardinality(Groupable(sessions)) - Cardinality(fingerprints)
    IN [total_sessions |-> Cardinality(sessions),
        duplicate_groups |-> Cardinality(fingerprints),
        duplicate_sessions_count |-> duplicate_sessions_count,
        total_messages |-> Cardinality(msgs),
        potential_duplicates |-> duplicate_sessions_count]

\* ------------------------------------------- ChatDatabase.get_duplicate_chat_stats
\* Four SELECTs; SUM(count - 1) over the duplicate groups, 0 when there is none.
get_duplicate_chat_stats(sessions, msgs) ==
    LET duplicated == UNION { GroupOf(sessions, fp) : fp \in DuplicateFingerprints(sessions) }
        duplicate_sessions_count ==
            Cardinality(duplicated) - Cardinality(DuplicateFingerprints(sessions))
    IN [total_sessions |-> Cardinality(sessions),
        duplicate_groups |-> Cardinality(DuplicateFingerprints(sessions)),
        duplicate_sessions_count |-> duplicate_sessions_count,
        total_messages |-> Cardinality(msgs),
        potential_duplicates |-> duplicate_sessions_count]

\* ------------------------------------------- cleanup_chat_database.py
\* The result of the apply mode.
CleanupReport(sessions, msgs, r) ==
    [action |-> "cleanup", success |-> TRUE,
     before |-> [total_sessions |-> Cardinality(sessions),
                 potential_duplicates |->
                     get_duplicate_chat_stats(sessions, msgs).potential_duplicates],
     after |-> [total_sessions |-> Cardinality(r.sessions),
                potential_duplicates |->
                    get_duplicate_chat_stats(r.sessions, r.msgs).potential_duplicates],
     removed |-> [duplicate_sessions |-> r.stats.sessions_removed,
                  total_sessions |-> r.stats.sessions_removed,
                  messages_merged |-> r.stats.messages_merged,
                  duplicate_messages_skipped |-> r.stats.duplicate_messages_skipped]]

\* cleanup_chat_database running the cleanup whatever check_only says.
cleanup_chat_database_applying(sessions, msgs, t, check_only) ==
    { [sessions |-> r.sessions, msgs |-> r.msgs, stats |-> r.stats, merges |-> r.merges,
       result |-> CleanupReport(sessions, msgs, r)] :
      r \in cleanup_duplicate_chat_sessions(sessions, msgs, t, {}) }

\* cleanup_chat_database(db_path, check_only): the dry run reads
\* get_duplicate_chat_stats and returns; the apply mode runs
\* cleanup_duplicate_chat_sessions between two readings of the statistics.
cleanup_chat_database(sessions, msgs, t, check_only) ==
    IF check_only
    THEN { [sessions |-> sessions, msgs |-> msgs, stats |-> NoStats, merges |-> {},
            result |-> [action |-> "check_only", success |-> TRUE,
                        stats |-> get_duplicate_chat_stats(sessions, msgs)]] }
    ELSE { [sessions |-> r.sessions, msgs |-> r.msgs, stats |-> r.stats, merges |-> r.merges,
            result |-> CleanupReport(sessions, msgs, r)] :
           r \in cleanup_duplicate_chat_sessions(sessions, msgs, t, {}) }

\* ------------------------------------------- ChatParser.chat_session_exists
\* chat_session_exists with ORDER BY last_activity DESC alone.
chat_session_exists_latest_first(sessions, platform, title, participant) ==
    LET matching == { s \in sessions : /\ s.chat_platform = platform
                                       /\ s.chat_title = title
                                       /\ s.participant_name = participant }
    IN IF matching = {} THEN { None }
       ELSE { s.session_id : s \in { y \in matching :
                                       \A z \in matching : z.last_activity <= y.last_activity } }

\* WHERE chat_platform = ? AND chat_title = ? AND participant_name = ?
\* ORDER BY total_messages DESC, last_activity DESC LIMIT 1.
\* The set of values the call can return: None, or the session_id of a first
\* row of the ordering.
chat_session_exists(sessions, platform, title, participant) ==
    LET matching == { s \in sessions : /\ s.chat_platform = platform
                                       /\ s.chat_title = title
                                       /\ s.participant_name = participant }
    IN IF matching = {} THEN { None }
       ELSE { s.session_id : s \in { y \in matching : \A z \in matching : ~SessionBefore(z, y) } }

\* chat_session_exists_call with a lookup that also recounts the row it found.
chat_session_exists_recounting(sessions, msgs, platform, title, participant) ==
    { [sessions |-> { IF s.session_id = found
                      THEN [s EXCEPT !.total_messages = CountMessages(msgs, found)]
                      ELSE s : s \in sessions },
       msgs |-> msgs, found |-> found] :
      found \in chat_session_exists(sessions, platform, title, participant) }

\* The whole call, as the store sees it: a cursor, one SELECT, fetchone and a
\* return; no INSERT, UPDATE or DELETE and no commit.  The outcomes are the
\* store after the call with the value returned.
chat_session_exists_call(sessions, msgs, platform, title, participant) ==
    { [sessions |-> sessions, msgs |-> msgs, found |-> found] :
      found \in chat_session_exists(sessions, platform, title, participant) }

\* ------------------------------------------- ChatParser.extract_participant_name
\* list(senders)[0] of a set: any of the senders found.
extract_participant_name(messages) ==
    LET senders == { messages[i].sender : i \in 1..Len(messages) }
                     \ { "unknown", "user", "me", "you" }
    IN IF senders # {} THEN senders ELSE { "Unknown Participant" }

incremental_title(platform, participant) == <<platform, "Chat with", participant>>

\* The titles and participants a caller asks chat_session_exists about: those
\* save_to_database stores and those process_incremental builds.
QueryTitles(platform) == { session_title(platform), incremental_title(platform, "alice") }

QueryParticipants == { "Unknown", "alice" }

\* ------------------------------------------- ChatParser.process_incremental, as written
\* The attributes of a ChatDatabase object: db_path and the methods of the class.
ChatDatabaseAttributes ==
    { "db_path", "init_database", "save_raw_chat_html", "save_chat_session",
      "save_chat_messages", "get_latest_messages", "get_latest_session",
      "get_recent_messages", "save_gpt2_response", "get_dashboard_data",
      "update_session_phase", "get_session_with_phase", "find_duplicate_chat_sessions",
      "cleanup_duplicate_chat_sessions", "merge_chat_sessions",
      "get_duplicate_chat_stats", "get_chat_sessions_count" }

AttributeError == "AttributeError"

\* self.db.<name>: the attribute, or an AttributeError when the object has none.
db_attribute(name) == IF name \in ChatDatabaseAttributes THEN name ELSE AttributeError

\* chat_session_exists from its first statement,
\* conn = self.db.get_connection(): what the call returns or raises.
chat_session_exists_as_written(sessions, platform, title, participant) ==
    IF db_attribute("get_connection") = AttributeError
    THEN { AttributeError }
    ELSE chat_session_exists(sessions, platform, title, participant)

\* process_incremental on parsed messages: the whole body is inside one try,
\* and every exception ends the call in the 'error' result.
process_incremental(sessions, msgs, messages, platform, t) ==
    IF messages = <<>>
    THEN { [sessions |-> sessions, msgs |-> msgs, session_id |-> None,
            result |-> [action |-> "none", success |-> FALSE]] }
    ELSE UNION { {
        IF existing_session_id = AttributeError
        THEN [sessions |-> sessions, msgs |-> msgs, session_id |-> None,
              result |-> [action |-> "error", success |-> FALSE]]
        ELSE IF existing_session_id # None
        THEN LET r == update_existing_session(sessions, msgs, existing_session_id,
                                              messages, t)
             IN [sessions |-> r.sessions, msgs |-> r.msgs,
                 session_id |-> existing_session_id,
                 result |-> [action |-> "incremental_update", success |-> TRUE]]
        ELSE LET r == save_to_database(sessions, msgs, messages, platform, t)
             IN [sessions |-> r.sessions, msgs |-> r.msgs, session_id |-> r.session_id,
                 result |-> [action |-> "new_session", success |-> TRUE]] :
        existing_session_id \in chat_session_exists_as_written(sessions, platform,
                                   incremental_title(platform, participant), participant) } :
        participant \in extract_participant_name(messages) }

\* ------------------------------------------- a process that stops
\* What a call does to the store, statement by statement: steps[k] is the
\* store as the call's connection sees it after its k-th statement, and
\* steps[k].commit tells that the statement is a conn.commit().
Step(sessions, msgs, commit) == [sessions |-> sessions, msgs |-> msgs, commit |-> commit]

\* StoreAtStop for connections in autocommit mode: every statement is kept.
StoreAtStopAutocommit(sessions, msgs, steps, k) ==
    IF k = 0 THEN [sessions |-> sessions, msgs |-> msgs]
    ELSE [sessions |-> steps[k].sessions, msgs |-> steps[k].msgs]

\* The store a process leaves when it stops after the k-th statement of a
\* call: sqlite3 opens a transaction before the first INSERT, UPDATE or
\* DELETE of a connection and keeps its writes only at conn.commit(), so the
\* store is the one of the last commit reached, or the store the call began
\* with.
StoreAtStop(sessions, msgs, steps, k) ==
    LET commits == { i \in 1..k : steps[i].commit }
    IN IF commits = {} THEN [sessions |-> sessions, msgs |-> msgs]
       ELSE [sessions |-> steps[SetMax(commits)].sessions,
             msgs |-> steps[SetMax(commits)].msgs]

\* save_to_database: save_chat_session (INSERT OR REPLACE, commit), then
\* save_chat_messages on a connection of its own (one INSERT OR IGNORE per
\* message, commit).
save_to_database_steps(sessions, msgs, messages, platform, t) ==
    LET session_id == new_session_id(platform, t)
        session_data == [session_id |-> session_id, platform |-> platform,
                         title |-> session_title(platform), participant |-> "Unknown",
                         total_messages |-> Len(messages)]
        ordered == [i \in 1..Len(messages) |-> [messages[i] EXCEPT !.order = i]]
        saved == save_chat_session(sessions, session_data, t)
        inserted(i) == save_chat_messages(msgs, session_id, SubSeq(ordered, 1, i), 1, 0).msgs
    IN <<Step(saved, msgs, FALSE), Step(saved, msgs, TRUE)>>
       \o [i \in 1..Len(ordered) |-> Step(saved, inserted(i), FALSE)]
       \o <<Step(saved, inserted(Len(ordered)), TRUE)>>

\* update_existing_session: one INSERT per new message, the UPDATE of the
\* session row, conn.commit().
update_existing_session_steps(sessions, msgs, sid, batch, t) ==
    LET inserted(i) == update_loop(msgs, sid, SubSeq(batch, 1, i), 1, MaxOrder(msgs, sid), 0).msgs
        done == update_existing_session(sessions, msgs, sid, batch, t)
    IN [i \in 1..Len(batch) |-> Step(sessions, inserted(i), FALSE)]
       \o <<Step(done.sessions, done.msgs, FALSE), Step(done.sessions, done.msgs, TRUE)>>

\* merge_chat_sessions from its first statement to the UPDATE of the keep
\* session: per remove session one INSERT per message to merge, the DELETE of
\* its messages and the DELETE of its row.
RECURSIVE merge_remove_steps(_, _, _, _, _, _)
merge_remove_steps(sessions, msgs, keep, remove, j, st) ==
    IF j > Len(remove) THEN { <<>> }
    ELSE UNION {
           LET merged(i) == merge_messages(msgs, keep, SubSeq(to_merge, 1, i), 1, st)
               all == merged(Len(to_merge))
               rest_msgs == { r \in all.msgs : r.session_id # remove[j] }
               rest_sessions == { s \in sessions : s.session_id # remove[j] }
               steps == [i \in 1..Len(to_merge) |-> Step(sessions, merged(i).msgs, FALSE)]
                        \o <<Step(sessions, rest_msgs, FALSE),
                              Step(rest_sessions, rest_msgs, FALSE)>>
           IN { steps \o rest :
                rest \in merge_remove_steps(rest_sessions, rest_msgs, keep, remove, j + 1,
                             [all.st EXCEPT !.sessions_removed = @ + 1]) } :
           to_merge \in MessageOrders(SessionMessages(msgs, remove[j])) }

\* merge_chat_sessions: the statements of the loop, the UPDATE of the keep
\* session, conn.commit().
merge_chat_sessions_steps(sessions, msgs, keep, remove, t) ==
    { LET end == IF Len(steps) = 0 THEN Step(sessions, msgs, FALSE) ELSE steps[Len(steps)]
          refreshed == RefreshSession(end.sessions, end.msgs, keep, t)
      IN steps \o <<Step(refreshed, end.msgs, FALSE), Step(refreshed, end.msgs, TRUE)>> :
      steps \in merge_remove_steps(sessions, msgs, keep, remove, 1,
                   [max_order |-> MaxOrder(msgs, keep), messages_merged |-> 0,
                    duplicate_messages_skipped |-> 0, sessions_removed |-> 0]) }

\* ---------------------------------------------------------------- Init
\* What the store held for a session when an operation began.
SessionSummary(sessions, msgs, s) ==
    [session_id |-> s.session_id,
     fingerprint |-> Fingerprint(s),
     total_messages |-> s.total_messages,
     last_activity |-> s.last_activity,
     owned |-> CountMessages(msgs, s.session_id),
     keys |-> SessionKeys(msgs, s.session_id)]

StoredTotals(sessions, sid) == { s.total_messages : s \in { x \in sessions : x.session_id = sid } }

NoStore == [sessions |-> {}, msgs |-> {}]

NoReport == [action |-> "none", success |-> TRUE]

NoOp ==
    [op |-> "init", session_id |-> None, batch |-> <<>>, result |-> 0,
     participant |-> None, query |-> None, stats |-> NoStats, merges |-> {},
     prev_op |-> "init", prev_result |-> 0,
     again |-> FALSE, repeat |-> FALSE, overlap |-> FALSE,
     errors |-> 0, raised |-> FALSE, failing |-> {}, report |-> NoReport,
     before_messages |-> {}, before_totals |-> {}, before_sessions |-> {},
     before_store |-> NoStore, working |-> NoStore, concurrent |-> {},
     expected |-> <<>>, visited |-> <<>>]

\* The record of an operation that follows the operation recorded in `last`.
After(op, session_id, result) ==
    [NoOp EXCEPT !.op = op, !.session_id = session_id, !.result = result,
                 !.prev_op = last.op, !.prev_result = last.result,
                 !.before_messages = SessionMessages(chat_messages, session_id),
                 !.before_totals = StoredTotals(chat_sessions, session_id)]

Init ==
    /\ chat_sessions = {}
    /\ chat_messages = {}
    /\ now = 1
    /\ work = 0
    /\ last = NoOp
    /\ in_flight = {}

\* One more operation, on a scrape of Len(batch) messages.
Spend(batch) ==
    /\ work + 1 + Len(batch) <= MaxWork
    /\ work' = work + 1 + Len(batch)

\* The clock moves on between two operations.
Tick ==
    /\ now < MaxClock
    /\ now' = now + 1
    /\ UNCHANGED <<chat_sessions, chat_messages, work, last, in_flight>>

\* ChatParser.save_to_database(messages, platform), as main() calls it for
\* --html-file and process_latest_html for --latest.
SaveToDatabase ==
    \E platform \in Platforms, seed \in HashSeeds, batch \in Batches :
      LET r == save_to_database(chat_sessions, chat_messages,
                                ParsedBatch(platform, seed, batch), platform, now)
      IN /\ Spend(batch)
         /\ chat_sessions' = r.sessions
         /\ chat_messages' = r.msgs
         /\ last' = After("save_to_database", r.session_id, Len(batch))
         /\ UNCHANGED <<now, in_flight>>

\* ChatParser.update_existing_session(session_id, new_messages)
UpdateExistingSession ==
    \E s \in chat_sessions, batch \in NonEmptyBatches :
      LET sid == s.session_id
          r == update_existing_session(chat_sessions, chat_messages, sid, batch, now)
          again == last.op = "update_existing_session" /\ last.session_id = sid
      IN /\ Spend(batch)
         /\ chat_sessions' = r.sessions
         /\ chat_messages' = r.msgs
         /\ last' = [After("update_existing_session", sid, r.saved_count) EXCEPT
               !.batch = batch,
               !.again = again,
               !.repeat = again /\ last.batch = batch,
               !.overlap = /\ again
                           /\ BatchKeys(batch) \cap BatchKeys(last.batch) # {}
                           /\ r.saved_count > 0]
         /\ UNCHANGED <<now, in_flight>>

\* ChatParser.process_incremental: resolve, then update or create.
ProcessIncremental ==
    \E platform \in Platforms, seed \in HashSeeds, batch \in NonEmptyBatches :
      LET messages == ParsedBatch(platform, seed, batch) IN
      \E participant \in extract_participant_name(messages) :
      \E existing_session_id \in chat_session_exists(chat_sessions, platform,
                                     incremental_title(platform, participant), participant) :
         /\ Spend(batch)
         /\ IF existing_session_id # None
            THEN LET r == update_existing_session(chat_sessions, chat_messages,
                              existing_session_id, messages, now)
                 IN /\ chat_sessions' = r.sessions
                    /\ chat_messages' = r.msgs
                    /\ last' = [After("incremental_update", existing_session_id,
                                      r.saved_count) EXCEPT
                                  !.batch = batch, !.participant = participant]
            ELSE LET r == save_to_database(chat_sessions, chat_messages, messages,
                                           platform, now)
                 IN /\ chat_sessions' = r.sessions
                    /\ chat_messages' = r.msgs
                    /\ last' = [After("new_session", r.session_id, Len(messages)) EXCEPT
                                  !.batch = batch, !.participant = participant]
         /\ UNCHANGED <<now, in_flight>>

\* ChatParser.chat_session_exists(platform, title, participant)
ChatSessionExists ==
    \E platform \in Platforms, participant \in QueryParticipants :
    \E title \in QueryTitles(platform) :
    \E r \in chat_session_exists_call(chat_sessions, chat_messages, platform, title,
                                      participant) :
      /\ Spend(<<>>)
      /\ chat_sessions' = r.sessions
      /\ chat_messages' = r.msgs
      /\ last' = [After("chat_session_exists", r.found, 0) EXCEPT
            !.query = <<platform, title, participant>>,
            !.before_store = [sessions |-> chat_sessions, msgs |-> chat_messages]]
      /\ UNCHANGED <<now, in_flight>>

\* An ingest as process_incremental runs it when the lookup finds a session
\* (existing_session_id = self.chat_session_exists(...), then
\* self.update_existing_session(existing_session_id, messages)), in its two
\* steps: other processes write to the store between them.  The tuple asked
\* about is any tuple a caller holds; with the title process_incremental builds
\* the lookup matches no stored session.
IngestResolve ==
    /\ in_flight = {}
    /\ \E platform \in Platforms, participant \in QueryParticipants :
       \E title \in QueryTitles(platform), batch \in NonEmptyBatches :
       \E found \in chat_session_exists(chat_sessions, platform, title, participant) :
         /\ found # None
         /\ Spend(batch)
         /\ in_flight' = { [session_id |-> found, batch |-> batch] }
         /\ last' = [After("ingest_resolve", found, 0) EXCEPT
               !.batch = batch, !.query = <<platform, title, participant>>]
         /\ UNCHANGED <<chat_sessions, chat_messages, now>>

IngestUpdate ==
    \E ingest \in in_flight :
      LET sid == ingest.session_id
          r == update_existing_session(chat_sessions, chat_messages, sid,
                                       ingest.batch, now)
      IN /\ Spend(<<>>)
         /\ chat_sessions' = r.sessions
         /\ chat_messages' = r.msgs
         /\ last' = [After("ingest_update", sid, r.saved_count) EXCEPT
               !.batch = ingest.batch]
         /\ in_flight' = in_flight \ {ingest}
         /\ UNCHANGED now

\* The process stops inside ChatParser.save_to_database.
SaveToDatabaseStopped ==
    \E platform \in Platforms, seed \in HashSeeds, batch \in StoppedBatches :
      LET steps == save_to_database_steps(chat_sessions, chat_messages,
                       ParsedBatch(platform, seed, batch), platform, now)
      IN \E k \in 0..(Len(steps) - 1) :
           LET kept == StoreAtStop(chat_sessions, chat_messages, steps, k)
           IN /\ Spend(batch)
              /\ chat_sessions' = kept.sessions
              /\ chat_messages' = kept.msgs
              /\ last' = After("save_to_database_stopped", new_session_id(platform, now), 0)
              /\ UNCHANGED <<now, in_flight>>

\* The process stops inside ChatParser.update_existing_session.
UpdateExistingSessionStopped ==
    \E s \in chat_sessions, batch \in StoppedBatches \ { <<>> } :
      LET sid == s.session_id
          steps == update_existing_session_steps(chat_sessions, chat_messages, sid, batch, now)
      IN \E k \in 0..(Len(steps) - 1) :
           LET kept == StoreAtStop(chat_sessions, chat_messages, steps, k)
           IN /\ Spend(batch)
              /\ chat_sessions' = kept.sessions
              /\ chat_messages' = kept.msgs
              /\ last' = After("update_existing_session_stopped", sid, 0)
              /\ UNCHANGED <<now, in_flight>>

\* The process stops inside ChatDatabase.merge_chat_sessions, while
\* cleanup_duplicate_chat_sessions merges a group; the groups it merged
\* before are committed.
CleanupStopped ==
    \E duplicate_groups \in find_duplicate_chat_sessions(chat_sessions) :
    \E group \in duplicate_groups :
    \E merged_before \in SUBSET (duplicate_groups \ {group}) :
    \E begun \in cleanup_groups(merged_before, chat_sessions, chat_messages, now,
                                  NoTotals, {}, {}) :
    \E steps \in merge_chat_sessions_steps(begun.sessions, begun.msgs, group.keep_session,
                                            group.remove_sessions, now) :
    \E k \in 0..(Len(steps) - 1) :
      LET kept == StoreAtStop(begun.sessions, begun.msgs, steps, k)
      IN /\ Spend(<<>>)
         /\ chat_sessions' = kept.sessions
         /\ chat_messages' = kept.msgs
         /\ last' = [After("merge_chat_sessions_stopped", group.keep_session, 0) EXCEPT
               !.before_store = [sessions |-> begun.sessions, msgs |-> begun.msgs],
               !.working = IF k = 0 THEN [sessions |-> begun.sessions, msgs |-> begun.msgs]
                           ELSE [sessions |-> steps[k].sessions, msgs |-> steps[k].msgs]]
         /\ UNCHANGED <<now, in_flight>>

\* ChatDatabase.cleanup_duplicate_chat_sessions where merge_chat_sessions
\* raises for some of the groups.
CleanupMergeFails ==
    \E failing \in SUBSET DuplicateFingerprints(chat_sessions) :
    \E r \in cleanup_duplicate_chat_sessions(chat_sessions, chat_messages, now, failing) :
      /\ failing # {}
      /\ Spend(<<>>)
      /\ chat_sessions' = r.sessions
      /\ chat_messages' = r.msgs
      /\ last' = [After("cleanup", None, r.stats.sessions_removed) EXCEPT
            !.stats = r.stats,
            !.merges = r.merges,
            !.failing = failing,
            !.before_sessions = { SessionSummary(chat_sessions, chat_messages, s) :
                                  s \in chat_sessions }]
      /\ UNCHANGED <<now, in_flight>>

\* scripts/cleanup_chat_database.py: cleanup_chat_database(check_only), the
\* dry run (--check-only) and the apply mode.
CleanupChatDatabase ==
    \E check_only \in BOOLEAN :
    \E r \in cleanup_chat_database(chat_sessions, chat_messages, now, check_only) :
      /\ Spend(<<>>)
      /\ chat_sessions' = r.sessions
      /\ chat_messages' = r.msgs
      /\ last' = [After(IF check_only THEN "check_only" ELSE "cleanup", None,
                        r.stats.sessions_removed) EXCEPT
            !.stats = r.stats,
            !.merges = r.merges,
            !.report = r.result,
            !.before_store = [sessions |-> chat_sessions, msgs |-> chat_messages],
            !.before_sessions = { SessionSummary(chat_sessions, chat_messages, s) :
                                  s \in chat_sessions }]
      /\ UNCHANGED <<now, in_flight>>

\* ChatParser.update_existing_session(session_id, new_messages) with a batch
\* in which a message lacks a key.
UpdateExistingSessionMalformed ==
    \E s \in chat_sessions, batch \in MalformedBatches :
      LET sid == s.session_id
          r == update_existing_session(chat_sessions, chat_messages, sid, batch, now)
      IN /\ Spend(batch)
         /\ chat_sessions' = r.sessions
         /\ chat_messages' = r.msgs
         /\ last' = [After("update_malformed", sid, r.saved_count) EXCEPT
               !.batch = batch, !.errors = r.errors, !.raised = r.raised]
         /\ UNCHANGED <<now, in_flight>>

\* ChatParser.save_to_database(messages, platform) with such a batch; the
\* result recorded is what save_chat_messages returns.
SaveToDatabaseMalformed ==
    \E platform \in Platforms, seed \in HashSeeds, batch \in MalformedBatches :
      LET r == save_to_database(chat_sessions, chat_messages,
                                ParsedBatch(platform, seed, batch), platform, now)
      IN /\ Spend(batch)
         /\ chat_sessions' = r.sessions
         /\ chat_messages' = r.msgs
         /\ last' = [After("save_malformed", r.session_id, r.saved_count) EXCEPT
               !.batch = batch, !.errors = r.errors]
         /\ UNCHANGED <<now, in_flight>>

\* ChatParser.update_existing_session(session_id, new_messages) with a
\* session_id that no row of chat_sessions carries.
UpdateMissingSession ==
    \E platform \in Platforms, second \in 1..MaxClock, batch \in NonEmptyBatches :
      LET sid == new_session_id(platform, second)
          r == update_existing_session(chat_sessions, chat_messages, sid, batch, now)
      IN /\ \A s \in chat_sessions : s.session_id # sid
         /\ Spend(batch)
         /\ chat_sessions' = r.sessions
         /\ chat_messages' = r.msgs
         /\ last' = [After("update_missing_session", sid, r.saved_count) EXCEPT
               !.batch = batch, !.raised = r.raised]
         /\ UNCHANGED <<now, in_flight>>

\* ChatDatabase.cleanup_duplicate_chat_sessions, as --cleanup and
\* cleanup_chat_database(check_only=False) call it.
Cleanup ==
    \E r \in cleanup_duplicate_chat_sessions(chat_sessions, chat_messages, now, {}) :
      /\ Spend(<<>>)
      /\ chat_sessions' = r.sessions
      /\ chat_messages' = r.msgs
      /\ last' = [After("cleanup", None, r.stats.sessions_removed) EXCEPT
            !.stats = r.stats,
            !.merges = r.merges,
            !.before_sessions = { SessionSummary(chat_sessions, chat_messages, s) :
                                  s \in chat_sessions }]
      /\ UNCHANGED <<now, in_flight>>

\* cleanup_duplicate_chat_sessions in the steps other processes can come
\* between (cleanup_chat_database.py run twice, or run while the parser
\* ingests): the grouping query, then for each group the reads of
\* merge_chat_sessions and its writes.  A pass in flight is a record of
\* in_flight: the groups it still has to merge and, in `merging`, the
\* group it is merging with what it read.
PassesInFlight == { f \in in_flight : "pass" \in DOMAIN f }

CleanupFind ==
    \E pass \in { n \in 1..MaxPasses :
                      /\ \A f \in PassesInFlight : f.pass # n
                      /\ \A k \in 1..(n - 1) : \E f \in PassesInFlight : f.pass = k } :
    \E duplicate_groups \in find_duplicate_chat_sessions(chat_sessions) :
      /\ Spend(<<>>)
      /\ in_flight' = IF duplicate_groups = {} THEN in_flight
                      ELSE in_flight \cup { [pass |-> pass, groups |-> duplicate_groups,
                                              merging |-> <<>>] }
      /\ last' = After("cleanup_find", None, Cardinality(duplicate_groups))
      /\ UNCHANGED <<chat_sessions, chat_messages, now>>

MergeBegin ==
    \E f \in PassesInFlight :
    \E group \in f.groups :
    \E reads \in merge_chat_sessions_reads(chat_messages, group.keep_session,
                                            group.remove_sessions) :
      /\ f.merging = <<>>
      /\ in_flight' = (in_flight \ {f}) \cup
                         { [f EXCEPT !.groups = @ \ {group},
                                     !.merging = << [group |-> group, reads |-> reads] >>] }
      /\ last' = After("merge_begin", group.keep_session, 0)
      /\ UNCHANGED <<chat_sessions, chat_messages, now, work>>

MergeFinish ==
    \E f \in PassesInFlight :
      /\ f.merging # <<>>
      /\ LET group == f.merging[1].group IN
         \E m \in merge_chat_sessions_writes(chat_sessions, chat_messages,
                       group.keep_session, group.remove_sessions, now,
                       f.merging[1].reads) :
           /\ chat_sessions' = m.sessions
           /\ chat_messages' = m.msgs
           /\ in_flight' = (in_flight \ {f}) \cup
                              (IF f.groups = {} THEN {}
                               ELSE { [f EXCEPT !.merging = <<>>] })
           /\ last' = [After("merge_finish", group.keep_session, 0) EXCEPT
                 !.stats = m.stats,
                 !.merges = { [group |-> group, stats |-> m.stats] },
                 !.before_store = [sessions |-> chat_sessions, msgs |-> chat_messages]]
           /\ UNCHANGED <<now, work>>

\* update_existing_session in the steps other processes can come between:
\* the SELECT of max_order, then the loop with its commit.  An ingest in
\* flight is a record of in_flight; `concurrent` collects the batches that
\* other calls committed into the same session since its SELECT.
IngestsInFlight == { f \in in_flight : "ingest" \in DOMAIN f }

UpdateBegin ==
    \E ingest \in { n \in 1..MaxIngests :
                        /\ \A f \in IngestsInFlight : f.ingest # n
                        /\ \A k \in 1..(n - 1) : \E f \in IngestsInFlight : f.ingest = k } :
    \E s \in chat_sessions, batch \in NonEmptyBatches :
      /\ Spend(batch)
      /\ in_flight' = in_flight \cup
            { [ingest |-> ingest, session_id |-> s.session_id, batch |-> batch,
               max_order |-> MaxOrder(chat_messages, s.session_id), concurrent |-> {}] }
      /\ last' = [After("update_begin", s.session_id, 0) EXCEPT !.batch = batch]
      /\ UNCHANGED <<chat_sessions, chat_messages, now>>

UpdateFinish ==
    \E f \in IngestsInFlight :
      LET r == update_existing_session_writes(chat_sessions, chat_messages, f.session_id,
                                              f.batch, now, f.max_order)
      IN /\ chat_sessions' = r.sessions
         /\ chat_messages' = r.msgs
         /\ in_flight' = { IF g.session_id = f.session_id
                           THEN [g EXCEPT !.concurrent = @ \cup {f.batch}]
                           ELSE g : g \in in_flight \ {f} }
         /\ last' = [After("update_finish", f.session_id, r.saved_count) EXCEPT
               !.batch = f.batch, !.errors = r.errors, !.concurrent = f.concurrent]
         /\ UNCHANGED <<now, work>>

\* ChatParser.save_to_database on scrapes of more than one platform, so
\* that the store holds sessions of more than one fingerprint.
SaveToDatabasePlatforms ==
    \E platform \in DetectedPlatforms, seed \in HashSeeds, batch \in StoppedBatches :
      LET r == save_to_database(chat_sessions, chat_messages,
                                ParsedBatch(platform, seed, batch), platform, now)
      IN /\ Spend(batch)
         /\ chat_sessions' = r.sessions
         /\ chat_messages' = r.msgs
         /\ last' = After("save_to_database", r.session_id, Len(batch))
         /\ UNCHANGED <<now, in_flight>>

\* ChatParser.process_incremental(html_file_path), as main() calls it for
\* --incremental, with the ChatDatabase class as it is written.
ProcessIncrementalAsWritten ==
    \E platform \in Platforms, seed \in HashSeeds, batch \in Batches :
    \E r \in process_incremental(chat_sessions, chat_messages,
                                  ParsedBatch(platform, seed, batch), platform, now) :
      /\ Spend(batch)
      /\ chat_sessions' = r.sessions
      /\ chat_messages' = r.msgs
      /\ last' = [After("process_incremental", r.session_id, 0) EXCEPT
            !.batch = batch, !.report = r.result]
      /\ UNCHANGED <<now, in_flight>>

\* ------------------------------------------- the loops, one iteration a step
\* The cleanup pass and the ingest with one loop iteration as one step, to
\* follow each loop to its end.  A record of in_flight is a call in
\* progress: its loop positions, `holds` (it has written and not yet
\* committed: it holds SQLite's write lock, and a step that writes waits
\* while another call holds it) and `visited`, the iterations it has run.
\*
\* ORDER BY COUNT(*) DESC: the rows of find_duplicate_chat_sessions as a
\* list; groups of equal size come in either order.
RECURSIVE GroupLists(_)
GroupLists(S) ==
    IF S = {} THEN { <<>> }
    ELSE UNION { { <<x>> \o rest : rest \in GroupLists(S \ {x}) } :
                 x \in { y \in S : \A z \in S : z.duplicate_count <= y.duplicate_count } }

\* A for loop that takes the same element again.
same_position(i) == i

\* for x in list: the position of the element the loop takes next.
next_position(i) == i + 1

\* The record of a step of a loop: the operation and nothing of the store.
LoopOp(op) == [NoOp EXCEPT !.op = op]

\* The scrapes that fill the store for the loops (none or one message) and
\* the batches the ingests bring (two messages).
LoopScrapes == { batch \in StoppedBatches : \A i \in 1..Len(batch) : batch[i].sender = "alice" }

LoopBatches ==
    { batch \in NonEmptyBatches :
        Len(batch) = MaxBatchLen /\ \A i \in 1..Len(batch) : batch[i].sender = "alice" }

\* ChatParser.save_to_database on the scrapes above.
SaveToDatabaseScrape ==
    \E platform \in DetectedPlatforms, batch \in LoopScrapes :
      LET r == save_to_database(chat_sessions, chat_messages,
                   ParsedBatch(platform, CHOOSE seed \in HashSeeds : TRUE, batch),
                   platform, now)
      IN /\ Spend(batch)
         /\ chat_sessions' = r.sessions
         /\ chat_messages' = r.msgs
         /\ last' = LoopOp("save_to_database")
         /\ UNCHANGED <<now, in_flight>>

LockFreeFor(f) == \A h \in in_flight : h.holds => h = f

NoCounters ==
    [max_order |-> 0, messages_merged |-> 0, duplicate_messages_skipped |-> 0,
     sessions_removed |-> 0]

\* duplicate_groups = self.find_duplicate_chat_sessions(), and the early
\* return when there are none.
PassStart ==
    /\ PassesInFlight = {}
    /\ \E duplicate_groups \in find_duplicate_chat_sessions(chat_sessions) :
       \E groups \in GroupLists(duplicate_groups) :
         /\ Spend(<<>>)
         /\ in_flight' = IF groups = <<>> THEN in_flight
                         ELSE in_flight \cup
                                { [pass |-> 1, groups |-> groups, g |-> 1, j |-> 0,
                                   st |-> NoCounters, holds |-> FALSE, visited |-> <<>>] }
         /\ last' = [LoopOp(IF groups = <<>> THEN "pass_done" ELSE "pass_start")
                      EXCEPT !.expected = groups]
         /\ UNCHANGED <<chat_sessions, chat_messages, now>>

\* merge_chat_sessions(group['keep_session'], group['remove_sessions']) up to
\* its loop: the SELECT of max_order of the keep session.
MergeStart ==
    \E f \in PassesInFlight :
      /\ f.g <= Len(f.groups)
      /\ f.j = 0
      /\ in_flight' = (in_flight \ {f}) \cup
            { [f EXCEPT !.j = 1,
                        !.st = [NoCounters EXCEPT !.max_order =
                                  MaxOrder(chat_messages, f.groups[f.g].keep_session)]] }
      /\ UNCHANGED <<chat_sessions, chat_messages, now, work, last>>

\* One iteration of for remove_session_id in remove_session_ids.
MergeRemoveStep ==
    \E f \in PassesInFlight :
      /\ f.g <= Len(f.groups)
      /\ f.j >= 1
      /\ f.j <= Len(f.groups[f.g].remove_sessions)
      /\ LockFreeFor(f)
      /\ LET group == f.groups[f.g] IN
         \E o \in merge_remove_loop(chat_sessions, chat_messages, group.keep_session,
                                     << group.remove_sessions[f.j] >>, 1, f.st) :
           /\ chat_sessions' = o.sessions
           /\ chat_messages' = o.msgs
           /\ in_flight' = (in_flight \ {f}) \cup
                 { [f EXCEPT !.j = next_position(f.j), !.st = o.st, !.holds = TRUE,
                             !.visited = Append(@, <<f.g, f.j>>)] }
           /\ UNCHANGED <<now, work, last>>

\* The end of merge_chat_sessions (UPDATE of the keep session, commit) and
\* the next iteration of for group in duplicate_groups; after the last
\* group the pass returns.
MergeCommit ==
    \E f \in PassesInFlight :
      /\ f.g <= Len(f.groups)
      /\ f.j > Len(f.groups[f.g].remove_sessions)
      /\ LockFreeFor(f)
      /\ chat_sessions' = RefreshSession(chat_sessions, chat_messages,
                                         f.groups[f.g].keep_session, now)
      /\ LET visited == Append(f.visited, <<f.g>>)
             g == next_position(f.g)
         IN IF g > Len(f.groups)
            THEN /\ in_flight' = in_flight \ {f}
                 /\ last' = [LoopOp("pass_done") EXCEPT
                       !.expected = f.groups, !.visited = visited]
            ELSE /\ in_flight' = (in_flight \ {f}) \cup
                       { [f EXCEPT !.g = g, !.j = 0, !.holds = FALSE,
                                   !.visited = visited] }
                 /\ UNCHANGED last
      /\ UNCHANGED <<chat_messages, now, work>>

\* update_existing_session up to its loop: the SELECT of max_order.
IngestStart ==
    /\ IngestsInFlight = {}
    /\ \E s \in chat_sessions, batch \in LoopBatches :
         /\ Spend(batch)
         /\ in_flight' = in_flight \cup
               { [ingest |-> 1, session_id |-> s.session_id, batch |-> batch, i |-> 1,
                  max_order |-> MaxOrder(chat_messages, s.session_id),
                  saved_count |-> 0, holds |-> FALSE, visited |-> <<>>] }
         /\ last' = [LoopOp("ingest_start") EXCEPT !.batch = batch]
         /\ UNCHANGED <<chat_sessions, chat_messages, now>>

\* One iteration of for msg in new_messages: the SELECT for the message and,
\* when no row has its sender and text, max_order += 1 and the INSERT.
IngestMessageStep ==
    \E f \in IngestsInFlight :
      /\ f.i <= Len(f.batch)
      /\ LockFreeFor(f)
      /\ LET msg == f.batch[f.i]
             found == MessageExists(chat_messages, f.session_id, msg.sender, msg.text)
             done == update_loop(chat_messages, f.session_id, << msg >>, 1, f.max_order, 0)
         IN /\ chat_messages' = done.msgs
            /\ in_flight' = (in_flight \ {f}) \cup
                  { [f EXCEPT !.i = next_position(f.i),
                              !.max_order = IF found THEN @ ELSE @ + 1,
                              !.saved_count = @ + done.saved_count,
                              !.holds = @ \/ done.saved_count > 0,
                              !.visited = Append(@, <<f.i>>)] }
      /\ UNCHANGED <<chat_sessions, now, work, last>>

\* The end of update_existing_session: UPDATE of the session, commit, return.
IngestCommit ==
    \E f \in IngestsInFlight :
      /\ f.i > Len(f.batch)
      /\ LockFreeFor(f)
      /\ chat_sessions' = RefreshSession(chat_sessions, chat_messages, f.session_id, now)
      /\ in_flight' = in_flight \ {f}
      /\ last' = [LoopOp("ingest_done") EXCEPT
            !.batch = f.batch, !.result = f.saved_count, !.visited = f.visited]
      /\ UNCHANGED <<chat_messages, now, work>>

Next ==
    \/ Tick
    \/ SaveToDatabase
    \/ UpdateExistingSession
    \/ Cleanup

Spec == Init /\ [][Next]_vars

\* The incremental entry point (--incremental), the clock and the cleanup.
NextIncremental ==
    \/ Tick
    \/ ProcessIncremental
    \/ Cleanup

SpecIncremental == Init /\ [][NextIncremental]_vars

\* The resolver queried between ingests.
NextResolve ==
    \/ Tick
    \/ SaveToDatabase
    \/ UpdateExistingSession
    \/ ChatSessionExists

SpecResolve == Init /\ [][NextResolve]_vars

\* Ingests in two steps, racing with the cleanup.
NextRace ==
    \/ Tick
    \/ SaveToDatabase
    \/ IngestResolve
    \/ IngestUpdate
    \/ Cleanup

SpecRace == Init /\ [][NextRace]_vars

\* Ingests, and processes that stop in the middle of an ingest.
NextStopped ==
    \/ Tick
    \/ SaveToDatabase
    \/ SaveToDatabaseStopped
    \/ UpdateExistingSessionStopped

SpecStopped == Init /\ [][NextStopped]_vars

\* Ingests, and processes that stop in the middle of a merge.
NextMergeStopped ==
    \/ Tick
    \/ SaveToDatabase
    \/ CleanupStopped

SpecMergeStopped == Init /\ [][NextMergeStopped]_vars

\* Ingests of batches in which a message lacks a key.
NextMalformed ==
    \/ Tick
    \/ SaveToDatabase
    \/ UpdateExistingSessionMalformed
    \/ SaveToDatabaseMalformed

SpecMalformed == Init /\ [][NextMalformed]_vars

\* Ingests under session keys the store does not hold.
NextNotFound ==
    \/ Tick
    \/ SaveToDatabase
    \/ UpdateMissingSession

SpecNotFound == Init /\ [][NextNotFound]_vars

\* Ingests, and cleanups in which a merge fails.
NextMergeFails ==
    \/ Tick
    \/ SaveToDatabase
    \/ CleanupMergeFails

SpecMergeFails == Init /\ [][NextMergeFails]_vars

\* Ingests and the maintenance script in its two modes.
NextMaintenance ==
    \/ Tick
    \/ SaveToDatabase
    \/ CleanupChatDatabase

SpecMaintenance == Init /\ [][NextMaintenance]_vars

\* ================================================================ claims
\* Passes of the cleanup in their steps, with ingests between the steps.
NextPasses ==
    \/ Tick
    \/ SaveToDatabase
    \/ UpdateExistingSession
    \/ CleanupFind
    \/ MergeBegin
    \/ MergeFinish

SpecPasses == Init /\ [][NextPasses]_vars

\* Calls of update_existing_session in their steps.
NextIngests ==
    \/ Tick
    \/ SaveToDatabase
    \/ UpdateBegin
    \/ UpdateFinish

SpecIngests == Init /\ [][NextIngests]_vars

\* The cleanup script on a store with sessions of two platforms.
NextPlatforms ==
    \/ Tick
    \/ SaveToDatabasePlatforms
    \/ CleanupChatDatabase

SpecPlatforms == Init /\ [][NextPlatforms]_vars

\* The incremental entry point with the classes as they are written.
NextAsWritten ==
    \/ Tick
    \/ SaveToDatabase
    \/ ProcessIncrementalAsWritten

SpecAsWritten == Init /\ [][NextAsWritten]_vars

\* The loops of the cleanup and of the ingest, an iteration at a time.  A
\* call in progress is a running process: its next statement is executed
\* whenever it can be, and a statement that waits for the write lock can be
\* executed once the holder has committed.
NextLoops ==
    \/ Tick
    \/ SaveToDatabaseScrape
    \/ PassStart
    \/ MergeStart
    \/ MergeRemoveStep
    \/ MergeCommit
    \/ IngestStart
    \/ IngestMessageStep
    \/ IngestCommit

SpecLoops ==
    /\ Init
    /\ [][NextLoops]_vars
    /\ WF_vars(MergeStart)
    /\ WF_vars(MergeRemoveStep)
    /\ WF_vars(MergeCommit)
    /\ WF_vars(IngestMessageStep)
    /\ WF_vars(IngestCommit)

\* ---- what the claims speak of
BeforeGroup(fp) == { b \in last.before_sessions : b.fingerprint = fp }

BeforeDuplicateFingerprints ==
    { fp \in { b.fingerprint : b \in last.before_sessions } :
        Cardinality(BeforeGroup(fp)) > 1 }

Range(seq) == { seq[i] : i \in 1..Len(seq) }

RECURSIVE SumOwned(_)
SumOwned(S) ==
    IF S = {} THEN 0
    ELSE LET b == CHOOSE x \in S : TRUE IN b.owned + SumOwned(S \ {b})

RECURSIVE SumStat(_, _)
SumStat(merges, field) ==
    IF merges = {} THEN 0
    ELSE LET m == CHOOSE x \in merges : TRUE IN m.stats[field] + SumStat(merges \ {m}, field)

FirstIndex(batch, key) ==
    CHOOSE i \in 1..Len(batch) :
        /\ BatchKey(batch[i]) = key
        /\ \A j \in 1..(i - 1) : BatchKey(batch[j]) # key

TargetMessages == SessionMessages(chat_messages, last.session_id)

KeysOf(rows) == { DedupKey(r) : r \in rows }

\* C1: Idempotent ingest.  When update_existing_session has just been called
\* for the second time in a row with the same batch on the same session, the
\* second call returned 0, and the session has the same number of messages,
\* the same set of dedup keys (sender, text) and the same stored
\* total_messages as after the first call.
IdempotentIngest ==
    last.repeat =>
        /\ last.result = 0
        /\ Cardinality(TargetMessages) = Cardinality(last.before_messages)
        /\ KeysOf(TargetMessages) = KeysOf(last.before_messages)
        /\ StoredTotals(chat_sessions, last.session_id) = last.before_totals

\* The second of two identical calls has run, and the first had stored messages.
IdempotentIngestWitness ==
    /\ last.repeat
    /\ last.prev_result > 0
    /\ TargetMessages # {}

\* C2: Session identity convergence.  After process_incremental has stored a
\* batch with fingerprint F = (platform, title, participant), exactly one
\* session carries F, it is the session the batch was stored in, and
\* resolve(F) returns its key.
SessionIdentityConvergence ==
    last.op \in {"new_session", "incremental_update"} =>
        LET platform == last.session_id[1]
            title == incremental_title(platform, last.participant)
        IN /\ { s.session_id : s \in { x \in chat_sessions :
                    Fingerprint(x) = <<platform, title, last.participant>> } }
                = { last.session_id }
           /\ chat_session_exists(chat_sessions, platform, title, last.participant)
                = { last.session_id }

\* C3: Rollup correctness.  Every session's stored total_messages equals the
\* number of message rows it owns.
RollupCorrectness ==
    \A s \in chat_sessions : s.total_messages = CountMessages(chat_messages, s.session_id)

\* C4: Dedup invariant.  No two messages of one session share sender and text.
DedupInvariant ==
    \A a \in chat_messages : \A b \in chat_messages :
        (a.session_id = b.session_id /\ DedupKey(a) = DedupKey(b)) => a = b

\* C5: Order monotonicity.  No two messages of one session share an order
\* position, and the messages the last ingest appended to its session have
\* positions above every position the session held before.
OrderMonotonicity ==
    /\ \A a \in chat_messages : \A b \in chat_messages :
         (a.session_id = b.session_id /\ a.message_order = b.message_order) => a = b
    /\ last.op \in {"save_to_database", "update_existing_session"} =>
         \A a \in TargetMessages \ last.before_messages :
           \A b \in last.before_messages : a.message_order > b.message_order

ReconciliationConvergence ==
    last.op = "cleanup" =>
        \A fp \in BeforeDuplicateFingerprints :
            LET after == { s \in chat_sessions : Fingerprint(s) = fp }
            IN /\ Cardinality(after) = 1
               /\ \A s \in after :
                    SessionKeys(chat_messages, s.session_id)
                      = UNION { b.keys : b \in BeforeGroup(fp) }

\* A pass has merged a group of three sessions: some messages moved to the
\* survivor and some were skipped as duplicates.
ReconciliationConvergenceWitness ==
    /\ last.op = "cleanup"
    /\ last.stats.sessions_removed >= 2
    /\ last.stats.messages_merged >= 1
    /\ last.stats.duplicate_messages_skipped >= 1

\* C8: Reconcile is safe to re-run.  After a reconcile pass no two sessions
\* with non-null platform and participant share (platform, title,
\* participant), and a pass run now finds no duplicate group, returns
\* all-zero counts and changes no session and no message.
ReconcileRerunSafe ==
    last.op = "cleanup" =>
        /\ DuplicateFingerprints(chat_sessions) = {}
        /\ \A r \in cleanup_duplicate_chat_sessions(chat_sessions, chat_messages, now, {}) :
             /\ r.stats = NoStats
             /\ r.sessions = chat_sessions
             /\ r.msgs = chat_messages

\* A second pass has run right after a pass that removed sessions.
ReconcileRerunSafeWitness ==
    /\ last.op = "cleanup"
    /\ last.prev_op = "cleanup"
    /\ last.prev_result >= 1
    /\ last.stats = NoStats

\* C9: Survivor selection.  The session a reconcile pass kept of a duplicate
\* group owned, before the pass, at least as many messages as every other
\* session of the group, and among the sessions owning as many it had the
\* most recent last_activity.
SurvivorSelection ==
    last.op = "cleanup" =>
        \A m \in last.merges :
            \A keep \in { b \in last.before_sessions : b.session_id = m.group.keep_session } :
            \A other \in BeforeGroup(m.group.fingerprint) :
                /\ other.owned <= keep.owned
                /\ other.owned = keep.owned => other.last_activity <= keep.last_activity

\* C10: Reconcile statistics are exact.  For every duplicate group of a
\* reconcile pass, sessions_removed is the group size minus 1,
\* messages_merged + duplicate_messages_skipped is the number of messages the
\* removed sessions owned, and the survivor ends with the messages it owned
\* plus messages_merged (which is also its stored total_messages); the
\* pass's counts are the sums over its groups.
ReconcileStatisticsExact ==
    last.op = "cleanup" =>
        /\ { m.group.fingerprint : m \in last.merges } = BeforeDuplicateFingerprints
        /\ \A m \in last.merges :
             LET group == BeforeGroup(m.group.fingerprint)
                 removed == { b \in group : b.session_id \in Range(m.group.remove_sessions) }
                 keep == m.group.keep_session
             IN /\ m.stats.sessions_removed = Cardinality(group) - 1
                /\ m.stats.messages_merged + m.stats.duplicate_messages_skipped
                     = SumOwned(removed)
                /\ \A b \in group : b.session_id = keep =>
                     /\ CountMessages(chat_messages, keep) = b.owned + m.stats.messages_merged
                     /\ StoredTotals(chat_sessions, keep) = { b.owned + m.stats.messages_merged }
        /\ last.stats.duplicate_groups_found = Cardinality(BeforeDuplicateFingerprints)
        /\ last.stats.sessions_removed = SumStat(last.merges, "sessions_removed")
        /\ last.stats.messages_merged = SumStat(last.merges, "messages_merged")
        /\ last.stats.duplicate_messages_skipped
             = SumStat(last.merges, "duplicate_messages_skipped")
        /\ last.stats.success

\* A pass has merged two sessions: one message moved, one was skipped.
ReconcileStatisticsExactWitness ==
    /\ last.op = "cleanup"
    /\ last.stats.sessions_removed = 1
    /\ last.stats.messages_merged = 1
    /\ last.stats.duplicate_messages_skipped = 1
IngestReconcileRaceNoOrphan ==
    \A m \in chat_messages : \E s \in chat_sessions : s.session_id = m.session_id
\* C13: Crash consistency of ingest.  When the process has stopped inside an
\* ingest (save_to_database or update_existing_session), the session of that
\* ingest, if the store holds it, has a stored total_messages equal to the
\* number of its message rows, and the store holds no message of that session
\* without the session row.
IngestCrashConsistent ==
    last.op \in {"save_to_database_stopped", "update_existing_session_stopped"} =>
        /\ \A s \in chat_sessions :
             s.session_id = last.session_id
               => s.total_messages = CountMessages(chat_messages, s.session_id)
        /\ TargetMessages # {} => \E s \in chat_sessions : s.session_id = last.session_id

\* C14: Crash consistency of merge.  When the process has stopped inside
\* merge_chat_sessions before its commit, the store is the store as it was
\* when the merge began.
MergeCrashConsistent ==
    last.op = "merge_chat_sessions_stopped" =>
        /\ chat_sessions = last.before_store.sessions
        /\ chat_messages = last.before_store.msgs

\* The process has stopped in a merge after the merge had copied a message to
\* the keep session and deleted a remove session's row.
MergeCrashConsistentWitness ==
    /\ last.op = "merge_chat_sessions_stopped"
    /\ Cardinality(last.working.sessions) < Cardinality(last.before_store.sessions)
    /\ \E r \in last.working.msgs :
         /\ r.session_id = last.session_id
         /\ r \notin last.before_store.msgs
\* C15: Malformed batch rejection.  When an ingest has been given a batch in
\* which a message lacks a required field, the session of the ingest holds
\* the messages it held before and its stored total_messages is what it was.
MalformedBatchRejected ==
    last.op \in {"update_malformed", "save_malformed"} =>
        /\ TargetMessages = last.before_messages
        /\ StoredTotals(chat_sessions, last.session_id) = last.before_totals

\* C16: Not-found is surfaced.  When update_existing_session has been called
\* with a session key the store does not hold, the call has reported it (it
\* raised) and the store holds no message row under that key.
NotFoundSurfaced ==
    last.op = "update_missing_session" =>
        /\ last.raised
        /\ TargetMessages = last.before_messages

\* ---- C17
\* The write of batch[i] is attempted when no message of its dedup key is in
\* the session: none before the call, none written earlier in the call.
WriteAttempted(i) ==
    /\ BatchKey(last.batch[i]) \notin KeysOf(last.before_messages)
    /\ \A j \in 1..(i - 1) :
         Complete(last.batch[j]) => BatchKey(last.batch[j]) # BatchKey(last.batch[i])

MergeFailureSurfaced ==
    (last.op = "cleanup" /\ last.failing # {}) =>
        /\ \A fp \in last.failing : \A b \in BeforeGroup(fp) :
             \E s \in chat_sessions : SessionSummary(chat_sessions, chat_messages, s) = b
        /\ last.stats.sessions_removed = SumStat(last.merges, "sessions_removed")
        /\ last.stats.messages_merged = SumStat(last.merges, "messages_merged")
        /\ { m.group.fingerprint : m \in last.merges } \cap last.failing = {}
        /\ ~last.stats.success
\* C19: Reconcile with nothing to do.  Whenever the store holds no duplicate
\* group, cleanup_duplicate_chat_sessions returns zero groups found, sessions
\* removed, messages merged and duplicates skipped with success true, and
\* leaves every session row (last_activity included) and every message row as
\* it was; so it has done when it last ran on such a store.
ReconcileNothingToDo ==
    /\ DuplicateFingerprints(chat_sessions) = {} =>
          \A r \in cleanup_duplicate_chat_sessions(chat_sessions, chat_messages, now, {}) :
            /\ r.stats = NoStats
            /\ r.sessions = chat_sessions
            /\ r.msgs = chat_messages
    /\ (last.op = "cleanup" /\ BeforeDuplicateFingerprints = {}) =>
          /\ last.stats = NoStats
          /\ { SessionSummary(chat_sessions, chat_messages, s) : s \in chat_sessions }
               = last.before_sessions

\* A pass has run, later than the last ingest, on a store that held sessions
\* with messages and no duplicate group.
ReconcileNothingToDoWitness ==
    /\ last.op = "cleanup"
    /\ last.prev_op # "cleanup"
    /\ BeforeDuplicateFingerprints = {}
    /\ \E b \in last.before_sessions : b.owned > 0 /\ b.last_activity < now

\* C20: Dry-run mode does not mutate.  When cleanup_chat_database has run with
\* check_only=True, every session row and every message row is as it was
\* before the run, whatever duplicate groups the store holds.
DryRunDoesNotMutate ==
    last.op = "check_only" =>
        /\ chat_sessions = last.before_store.sessions
        /\ chat_messages = last.before_store.msgs

\* A dry run has reported a duplicate group whose sessions hold messages.
DryRunDoesNotMutateWitness ==
    /\ last.op = "check_only"
    /\ last.report.stats.duplicate_groups >= 1
    /\ last.report.stats.potential_duplicates >= 1
    /\ last.report.stats.total_messages >= 2
\* C21: the resolver is a pure read.  After a call of chat_session_exists,
\* whether it returned a session_id or None, the session rows and the message
\* rows are those of before the call.
ResolverPureRead ==
    last.op = "chat_session_exists" =>
       /\ chat_sessions = last.before_store.sessions
       /\ chat_messages = last.before_store.msgs

\* A lookup that found a session whose stored total differs from its rows.
ResolverPureReadWitness ==
    /\ last.op = "chat_session_exists"
    /\ \E s \in chat_sessions :
          /\ s.session_id = last.session_id
          /\ s.total_messages # CountMessages(chat_messages, s.session_id)
\* C22: an ingest reports what it wrote.  After process_incremental, on the
\* new-session path and on the existing-session path, the message count of
\* the result equals the number of message rows the call added to the
\* target session.
IngestReportsWhatItWrote ==
    last.op \in {"new_session", "incremental_update"} =>
       last.result = Cardinality(TargetMessages \ last.before_messages)
\* C23: sessions are destroyed only as the losing side of a merge.  When a
\* merge of a cleanup pass has committed, with other passes and ingests
\* between the pass's grouping step and its merge, every session row the
\* merge deleted has a session of the same fingerprint in the store: no
\* duplicate group is reduced to zero sessions.
DeletedOnlyAsMergeLoser ==
    last.op = "merge_finish" =>
       \A b \in last.before_store.sessions :
          (\A s \in chat_sessions : s.session_id # b.session_id) =>
             \E s \in chat_sessions : Fingerprint(s) = Fingerprint(b)

\* C24: no message is lost by a merge.  When a merge has committed, every
\* message that was committed under a session it removed, before the rows of
\* that session were deleted, has a message of the same sender and text
\* under the keep session.
MergeLosesNoMessage ==
    last.op = "merge_finish" =>
       \A m \in last.merges :
       \A r \in last.before_store.msgs :
          r.session_id \in Range(m.group.remove_sessions) =>
             \E k \in SessionMessages(chat_messages, m.group.keep_session) :
                DedupKey(k) = DedupKey(r)
\* C25: concurrent ingests into one session.  When a call of
\* update_existing_session has committed after other calls committed into
\* the same session between its first read and its writes, and the session
\* had no duplicate before its writes, the session has no two messages with
\* the same (sender, text), no two messages with the same order position,
\* and holds every dedup key of its batch and of the batches of those calls.
ConcurrentIngestsSafe ==
    (/\ last.op = "update_finish"
     /\ last.concurrent # {}
     /\ \A a, b \in last.before_messages :
           (DedupKey(a) = DedupKey(b) \/ a.message_order = b.message_order) => a = b) =>
       /\ \A a, b \in TargetMessages : DedupKey(a) = DedupKey(b) => a = b
       /\ \A a, b \in TargetMessages : a.message_order = b.message_order => a = b
       /\ \A batch \in last.concurrent \cup {last.batch} :
             BatchKeys(batch) \subseteq KeysOf(TargetMessages)
\* What a session holds, as C26 compares it: sender, sender role, text,
\* timestamp and order position of its messages, and how many they are.
Content(rows) ==
    [messages |-> { [sender |-> r.sender, sender_type |-> r.sender_type,
                     message_text |-> r.message_text, timestamp |-> r.timestamp,
                     message_order |-> r.message_order] : r \in rows },
     count |-> Cardinality(rows)]

\* Rows read from the store as a batch for update_existing_session.
AsBatch(to_merge) ==
    [i \in 1..Len(to_merge) |->
       [sender |-> to_merge[i].sender, sender_type |-> to_merge[i].sender_type,
        text |-> to_merge[i].message_text, timestamp |-> to_merge[i].timestamp]]

\* The contents the session `keep` can have after update_existing_session
\* has ingested into it the messages of remove[j], remove[j + 1], ..., each
\* session as one batch in ascending order position.
RECURSIVE IngestedInto(_, _, _, _, _)
IngestedInto(sessions, msgs, keep, remove, j) ==
    IF j > Len(remove) THEN { Content(SessionMessages(msgs, keep)) }
    ELSE UNION { IngestedInto(sessions,
                     update_existing_session(sessions, msgs, keep, AsBatch(to_merge), now).msgs,
                     keep, remove, j + 1) :
                 to_merge \in MessageOrders(SessionMessages(msgs, remove[j])) }

MessageKeysDerived ==
    /\ \A r \in chat_messages :
          r.message_id = order_message_id(r.session_id, r.message_order)
    /\ \A a, b \in chat_messages : a.message_id = b.message_id => a = b
\* What C28 asks of one step: an ingest (save_to_database or
\* update_existing_session) keeps every message row of the store as it was
\* and adds rows to its target session alone; a cleanup keeps every message
\* row that the keep session of a merge owned.
AppendOnlyStep ==
    /\ last'.op \in {"save_to_database", "update_existing_session"} =>
          /\ chat_messages \subseteq chat_messages'
          /\ \A r \in chat_messages' \ chat_messages : r.session_id = last'.session_id
    /\ last'.op = "cleanup" =>
          \A m \in last'.merges :
             SessionMessages(chat_messages, m.group.keep_session) \subseteq
                SessionMessages(chat_messages', m.group.keep_session)

\* C28: messages are append-only.  An ingest into a session and a merge into
\* a keep session never update or delete a message the session owned: each
\* row keeps its sender, role, text, timestamp, order position and key; and
\* an ingest changes no message of any other session.
MessagesAppendOnly == [][AppendOnlyStep]_vars

\* An ingest added messages to a session that owned some, while another
\* session owned messages too.
MessagesAppendOnlyWitness ==
    /\ last.op = "update_existing_session"
    /\ last.before_messages # {}
    /\ last.result > 0
    /\ \E r \in chat_messages : r.session_id # last.session_id
\* The sessions of before the cleanup that no duplicate group holds: a null
\* platform or participant, or a fingerprint no other session has.
OutsideDuplicateGroups ==
    { b \in last.before_store.sessions :
        \/ b \notin Groupable(last.before_store.sessions)
        \/ Fingerprint(b) \notin DuplicateFingerprints(last.before_store.sessions) }

\* C29: a reconcile pass touches only duplicate groups.  After a cleanup,
\* every session that had a null platform or participant, or a fingerprint
\* it shared with no other session, has its row and its message rows as
\* they were before the cleanup.
ReconcileTouchesOnlyDuplicates ==
    last.op = "cleanup" =>
       \A b \in OutsideDuplicateGroups :
          /\ b \in chat_sessions
          /\ SessionMessages(chat_messages, b.session_id) =
                SessionMessages(last.before_store.msgs, b.session_id)

\* A cleanup merged a duplicate group next to a session with messages whose
\* fingerprint no other session had, later than that session's last activity.
ReconcileTouchesOnlyDuplicatesWitness ==
    /\ last.op = "cleanup"
    /\ last.merges # {}
    /\ \E b \in OutsideDuplicateGroups :
          /\ SessionMessages(last.before_store.msgs, b.session_id) # {}
          /\ b.last_activity < now
\* The position among the distinct dedup keys of the batch of the key
\* first seen at index i.
KeyRank(batch, i) == Cardinality({ BatchKey(batch[j]) : j \in 1..i })

\* C30: a new-session ingest stores the whole batch.  After
\* process_incremental has created a session for a batch, every dedup key
\* of the batch has a row under the new session, at the next order position
\* in the order of first appearance, whatever other sessions contain.
NewSessionStoresBatch ==
    last.op = "new_session" =>
       \A i \in 1..Len(last.batch) :
          FirstIndex(last.batch, BatchKey(last.batch[i])) = i =>
             \E r \in TargetMessages :
                /\ DedupKey(r) = BatchKey(last.batch[i])
                /\ r.message_order =
                      SetMax({ b.message_order : b \in last.before_messages } \cup {0})
                        + KeyRank(last.batch, i)
\* C31: session keys are fresh.  When save_to_database has created a
\* session, no session of the store had its key before the call: the call
\* replaced no session row and reset no rollup, also when another session of
\* the platform was created within the same second.
SessionKeysFresh ==
    last.op = "save_to_database" => last.before_totals = {}
\* C32: dry run and apply agree.  After the apply mode of the cleanup, in
\* which no merge failed, what get_duplicate_chat_stats says of the store of
\* before the pass agrees with the pass: duplicate_groups equals
\* duplicate_groups_found, and potential_duplicates equals sessions_removed,
\* in the statistics of the pass and in the report of the script.
DryRunAgreesWithApply ==
    last.op = "cleanup" =>
       LET dry == get_duplicate_chat_stats(last.before_store.sessions,
                                           last.before_store.msgs)
       IN /\ dry.duplicate_groups = last.stats.duplicate_groups_found
          /\ dry.potential_duplicates = last.stats.sessions_removed
          /\ last.report.before.potential_duplicates = last.report.removed.duplicate_sessions

\* An apply pass that found two duplicate groups and removed three sessions.
DryRunAgreesWithApplyWitness ==
    /\ last.op = "cleanup"
    /\ last.stats.duplicate_groups_found = 2
    /\ last.stats.sessions_removed = 3
IncrementalPathSucceeds ==
    (last.op = "process_incremental" /\ last.batch # <<>>) =>
       /\ last.report.success
       /\ last.report.action \in {"new_session", "incremental_update"}
PassRunning == PassesInFlight # {}

IngestRunning == IngestsInFlight # {}

\* No element of the sequence comes twice.
NoRepeats(seq) == \A a, b \in 1..Len(seq) : seq[a] = seq[b] => a = b

\* The iterations a pass over `groups` has to run: one per remove session
\* of each group, and one per group.
PassIterations(groups) ==
    { <<g>> : g \in 1..Len(groups) } \cup
    UNION { { <<g, j>> : j \in 1..Len(groups[g].remove_sessions) } : g \in 1..Len(groups) }

\* Every loop runs each of its iterations once.
EachIterationOnce ==
    /\ \A f \in in_flight : NoRepeats(f.visited)
    /\ last.op = "pass_done" =>
          /\ NoRepeats(last.visited)
          /\ Range(last.visited) = PassIterations(last.expected)
    /\ last.op = "ingest_done" =>
          /\ NoRepeats(last.visited)
          /\ Range(last.visited) = { <<i>> : i \in 1..Len(last.batch) }

====
